---------------------------- MODULE Spec2Model ----------------------------
(***************************************************************************)
(* BloomsBot: the question pool (SQLite table `questions`), the current    *)
(* paper (exports/current_paper.json), the paper assembler                 *)
(* (paper_generator.generate_paper and its relaxed fallback), the review   *)
(* handlers of app.py and the lexical Bloom classifier.                    *)
(*                                                                         *)
(* Conventions.                                                            *)
(*  - A question text is a sequence of tokens (words separated by one      *)
(*    space); a keyword is a sequence of lower-case tokens.                *)
(*  - Python floats are modelled by exact rationals, kept as integers:     *)
(*    bloom_targets holds hundredths of a mark, a fitness score is a       *)
(*    fraction num/den, and x <= 1.1*t is 10*x <= 11*t.                    *)
(*  - Requests are served one at a time: a handler runs to completion      *)
(*    before the next one starts. generate_paper is split at its loop      *)
(*    heads (pc) so that its loops can be observed.                        *)
(***************************************************************************)
EXTENDS Integers, Sequences, FiniteSets, TLC

VARIABLES
    questions,            \* table `questions`, rows in rowid order
    next_id,              \* next AUTOINCREMENT id of table `questions`
    current_paper,        \* content of current_paper.json, or NoFile
    response,             \* outcome of the last handler
    pc,                   \* position inside create_paper / generate_paper
    total_marks,          \* generate_paper, validate_paper_constraints: argument
    num_questions,        \* generate_paper, validate_paper_constraints: argument
    unit_distribution,    \* generate_paper: argument (dict, mutated in place)
    bloom_distribution,   \* generate_paper: argument (dict)
    caller_units,         \* unit_distribution as it was when the call began
    caller_blooms,        \* bloom_distribution as it was when the call began
    all_questions,        \* generate_paper: local
    bloom_targets,        \* generate_paper: local (hundredths of a mark)
    questions_by_criteria,\* generate_paper: local
    selected_questions,   \* generate_paper: local
    remaining_marks,      \* generate_paper: local
    attempts,             \* generate_paper: local
    available,            \* generate_paper_relaxed: local (shuffled copy)
    position,             \* generate_paper_relaxed: index of the for loop
    selected,             \* generate_paper_relaxed: local
    total,                \* generate_paper_relaxed: local
    result,               \* value returned by generate_paper
    returned_by,          \* which return statement produced result
    question_text,        \* classify_question: argument
    bloom_level,          \* determine_bloom_level: returned value
    question_marks,       \* determine_difficulty: argument `marks`
    question_difficulty,  \* determine_difficulty: returned value
    paper_questions,      \* validate_paper_constraints: argument `questions`
    is_valid,             \* validate_paper_constraints: returned flag
    issues,               \* validate_paper_constraints: returned list
    unit_topics,          \* generate_questions_from_text: the units found, each
                          \* with the topics extract_key_concepts returns
    draft_questions,      \* generate_questions_from_text: local `questions`,
                          \* the argument of balance_question_distribution
    balanced              \* value balance_question_distribution returns

vars == <<questions, next_id, current_paper, response, pc, total_marks,
          num_questions, unit_distribution, bloom_distribution, caller_units,
          caller_blooms, all_questions, bloom_targets, questions_by_criteria,
          selected_questions, remaining_marks, attempts, available, position,
          selected, total, result, returned_by, question_text, bloom_level,
          question_marks, question_difficulty, paper_questions, is_valid,
          issues, unit_topics, draft_questions, balanced>>

synthesizer == <<unit_topics, draft_questions, balanced>>

\* Python's None where a question or a filter value is expected, the None
\* generate_paper returns instead of a list, and the absence of
\* current_paper.json. (TLC compares values of one kind only: each stands
\* among the values it is compared with.)
None == [none |-> TRUE]
NoPaper == <<None>>
NoFile == <<[nofile |-> TRUE]>>
NoLevel == "None"

Min(a, b) == IF a <= b THEN a ELSE b
Max(a, b) == IF a >= b THEN a ELSE b
Abs(x) == IF x < 0 THEN 0 - x ELSE x
Range(s) == {s[i] : i \in 1..Len(s)}

RECURSIVE SumMarks(_)
SumMarks(qs) ==
    IF qs = <<>> THEN 0 ELSE qs[1].marks + SumMarks(Tail(qs))

(***************************************************************************)
(* blooms_classifier.py                                                    *)
(***************************************************************************)
LEVELS == <<"Remember", "Understand", "Apply", "Analyze", "Evaluate", "Create">>

BLOOM_KEYWORDS ==
    [Remember |->
        << <<"define">>, <<"list">>, <<"state">>, <<"identify">>, <<"name">>,
           <<"label">>, <<"recall">>, <<"recognize">>, <<"select">>,
           <<"what", "is">>, <<"who">>, <<"when">>, <<"where">>, <<"match">>,
           <<"choose">>, <<"find">>, <<"show">>, <<"spell">>, <<"tell">>,
           <<"write">> >>,
     Understand |->
        << <<"explain">>, <<"describe">>, <<"summarize">>, <<"discuss">>,
           <<"interpret">>, <<"paraphrase">>, <<"illustrate">>,
           <<"classify">>, <<"compare">>, <<"translate">>, <<"outline">>,
           <<"review">>, <<"restate">>, <<"express">>, <<"locate">>,
           <<"report">>, <<"recognize">>, <<"give", "example">> >>,
     Apply |->
        << <<"apply">>, <<"demonstrate">>, <<"use">>, <<"implement">>,
           <<"solve">>, <<"show">>, <<"execute">>, <<"construct">>,
           <<"compute">>, <<"modify">>, <<"operate">>, <<"prepare">>,
           <<"produce">>, <<"relate">>, <<"develop">>, <<"organize">>,
           <<"utilize">>, <<"sketch">>, <<"calculate">> >>,
     Analyze |->
        << <<"analyze">>, <<"examine">>, <<"compare">>, <<"contrast">>,
           <<"distinguish">>, <<"differentiate">>, <<"investigate">>,
           <<"categorize">>, <<"breakdown">>, <<"separate">>, <<"infer">>,
           <<"arrange">>, <<"classify">>, <<"order">>, <<"connect">>,
           <<"divide">>, <<"select">>, <<"survey">>, <<"inspect">> >>,
     Evaluate |->
        << <<"evaluate">>, <<"assess">>, <<"judge">>, <<"critique">>,
           <<"justify">>, <<"argue">>, <<"defend">>, <<"support">>,
           <<"rate">>, <<"prioritize">>, <<"recommend">>, <<"conclude">>,
           <<"predict">>, <<"criticize">>, <<"weigh">>, <<"measure">>,
           <<"validate">>, <<"prove">>, <<"disprove">> >>,
     Create |->
        << <<"create">>, <<"design">>, <<"develop">>, <<"construct">>,
           <<"plan">>, <<"produce">>, <<"invent">>, <<"formulate">>,
           <<"propose">>, <<"compose">>, <<"generate">>, <<"derive">>,
           <<"modify">>, <<"assemble">>, <<"set", "up">>, <<"devise">>,
           <<"imagine">>, <<"integrate">>, <<"synthesize">> >>]

\* The tokens texts are built from. A token is a word; "works", "designed",
\* "explains" and "differences" hold a heuristic's substring without being a
\* keyword, "Define" is a keyword in another case, "recognize", "compare"
\* and "select" are keywords of two levels, and LongClause stands for a 96-character run of words none of which is a
\* keyword or holds a heuristic's substring.
LongClause == "LongClause"

Words ==
    {"define", "Define", "explain", "recognize", "compare", "select",
     "design", "what", "is", "how", "why", "works", "designed", "explains",
     "differences", "stacks", LongClause}

\* str.lower() on a token.
Lower(w) ==
    CASE w = "Define"  -> "define"
      [] w = "Explain" -> "explain"
      [] w = LongClause -> "longclause"
      [] OTHER -> w

\* len() of a token.
TokenLen(w) ==
    CASE w \in {"is"} -> 2
      [] w \in {"how", "why"} -> 3
      [] w \in {"what", "show"} -> 4
      [] w \in {"works"} -> 5
      [] w \in {"define", "Define", "select", "design", "stacks"} -> 6
      [] w \in {"explain", "Explain", "compare", "network"} -> 7
      [] w \in {"designed", "explains"} -> 8
      [] w \in {"recognize"} -> 9
      [] w \in {"differences"} -> 11
      [] w = LongClause -> 96
      [] OTHER -> 5

\* `sub in token`, for the substrings classify_by_heuristics looks for.
HasSubstring(w, sub) ==
    CASE sub = "work"       -> w \in {"works", "network"}
      [] sub = "implement"  -> w \in {"implement"}
      [] sub = "explain"    -> w \in {"explain", "explains"}
      [] sub = "describe"   -> w \in {"describe"}
      [] sub = "compare"    -> w \in {"compare"}
      [] sub = "contrast"   -> w \in {"contrast"}
      [] sub = "difference" -> w \in {"differences"}
      [] sub = "design"     -> w \in {"design", "designed"}
      [] sub = "create"     -> w \in {"create"}
      [] sub = "develop"    -> w \in {"develop"}
      [] OTHER -> FALSE

\* question_text.lower()
LowerText(text) == [i \in 1..Len(text) |-> Lower(text[i])]

\* len(question_text): the tokens and the single spaces between them.
RECURSIVE TokensLen(_)
TokensLen(text) ==
    IF text = <<>> THEN 0 ELSE TokenLen(text[1]) + TokensLen(Tail(text))

TextLen(text) ==
    IF text = <<>> THEN 0 ELSE TokensLen(text) + Len(text) - 1

\* `sub in question_lower`
InText(sub, lower) == \E i \in 1..Len(lower) : HasSubstring(lower[i], sub)

\* re.search(r'\b' + re.escape(keyword) + r'\b', question_lower)
KeywordSearch(keyword, lower) ==
    \E i \in 1..(Len(lower) - Len(keyword) + 1) :
        \A j \in 1..Len(keyword) : lower[i + j - 1] = keyword[j]

\* level_scores after the counting loops of determine_bloom_level.
level_scores(text) ==
    [level \in Range(LEVELS) |->
        Cardinality({k \in 1..Len(BLOOM_KEYWORDS[level]) :
            KeywordSearch(BLOOM_KEYWORDS[level][k], LowerText(text))})]

\* max(level_scores.values())
MaxScore(scores) ==
    CHOOSE m \in {scores[l] : l \in DOMAIN scores} :
        \A l \in DOMAIN scores : scores[l] <= m

\* A max that keeps the last key with the greatest value.
MaxKey_LastGreatest(scores) ==
    LET m == MaxScore(scores)
    IN  LEVELS[CHOOSE i \in 1..Len(LEVELS) :
            /\ scores[LEVELS[i]] = m
            /\ \A j \in (i + 1)..Len(LEVELS) : scores[LEVELS[j]] # m]

\* max(level_scores, key=level_scores.get): the first key, in the dict's
\* insertion order, whose value is the greatest.
MaxKey(scores) ==
    LET m == MaxScore(scores)
    IN  LEVELS[CHOOSE i \in 1..Len(LEVELS) :
            /\ scores[LEVELS[i]] = m
            /\ \A j \in 1..(i - 1) : scores[LEVELS[j]] # m]

StartsWith(lower, firsts) ==
    \* re.match(r'^(a|b)\s', question_lower): a first word and a space after it
    Len(lower) >= 2 /\ lower[1] \in firsts

\* The cascade with the rule of compare/contrast/difference tried before
\* the rule of explain/describe.
classify_by_heuristics_CompareFirst(text) ==
    LET question_lower == LowerText(text)
    IN  IF StartsWith(question_lower, {"what", "who", "when", "where"})
        THEN "Remember"
        ELSE IF StartsWith(question_lower, {"how"})
        THEN (IF InText("work", question_lower)
                 \/ InText("implement", question_lower)
              THEN "Apply" ELSE "Understand")
        ELSE IF StartsWith(question_lower, {"why"})
        THEN (IF TextLen(text) > 100 THEN "Analyze" ELSE "Understand")
        ELSE IF InText("compare", question_lower)
                \/ InText("contrast", question_lower)
                \/ InText("difference", question_lower)
        THEN "Analyze"
        ELSE IF InText("explain", question_lower)
                \/ InText("describe", question_lower)
        THEN "Understand"
        ELSE IF InText("design", question_lower)
                \/ InText("create", question_lower)
                \/ InText("develop", question_lower)
        THEN "Create"
        ELSE "Understand"

classify_by_heuristics(text) ==
    LET question_lower == LowerText(text)
    IN  IF StartsWith(question_lower, {"what", "who", "when", "where"})
        THEN "Remember"
        ELSE IF StartsWith(question_lower, {"how"})
        THEN (IF InText("work", question_lower)
                 \/ InText("implement", question_lower)
              THEN "Apply" ELSE "Understand")
        ELSE IF StartsWith(question_lower, {"why"})
        THEN (IF TextLen(text) > 100 THEN "Analyze" ELSE "Understand")
        ELSE IF InText("explain", question_lower)
                \/ InText("describe", question_lower)
        THEN "Understand"
        ELSE IF InText("compare", question_lower)
                \/ InText("contrast", question_lower)
                \/ InText("difference", question_lower)
        THEN "Analyze"
        ELSE IF InText("design", question_lower)
                \/ InText("create", question_lower)
                \/ InText("develop", question_lower)
        THEN "Create"
        ELSE "Understand"

determine_bloom_level(text) ==
    LET scores == level_scores(text)
    IN  IF MaxScore(scores) = 0
        THEN classify_by_heuristics(text)
        ELSE MaxKey(scores)

bloom_difficulty ==
    [Remember |-> 1, Understand |-> 2, Apply |-> 3, Analyze |-> 4,
     Evaluate |-> 5, Create |-> 6]

\* The tiers of the marks taken with < in place of <=.
determine_difficulty_StrictTiers(level, marks) ==
    LET bloom_score == IF level \in DOMAIN bloom_difficulty
                       THEN bloom_difficulty[level] ELSE 2
        marks_score == IF marks < 2 THEN 1 ELSE IF marks < 5 THEN 2 ELSE 3
        combined_score == bloom_score * 6 + marks_score * 4
    IN  IF combined_score <= 25 THEN "Easy"
        ELSE IF combined_score <= 45 THEN "Medium"
        ELSE "Hard"

\* combined_score = bloom_score * 0.6 + marks_score * 0.4, in tenths.
determine_difficulty(level, marks) ==
    LET bloom_score == IF level \in DOMAIN bloom_difficulty
                       THEN bloom_difficulty[level] ELSE 2
        marks_score == IF marks <= 2 THEN 1 ELSE IF marks <= 5 THEN 2 ELSE 3
        combined_score == bloom_score * 6 + marks_score * 4
    IN  IF combined_score <= 25 THEN "Easy"
        ELSE IF combined_score <= 45 THEN "Medium"
        ELSE "Hard"

classify_question(text, marks) ==
    LET level == determine_bloom_level(text)
    IN  [bloom_level |-> level,
         difficulty |-> determine_difficulty(level, marks)]

(***************************************************************************)
(* database.py                                                             *)
(***************************************************************************)
\* `if unit:` treats None like the empty string and `if marks:` treats None
\* like 0: an absent text filter is "", an absent marks filter is 0.
NoText == ""
NoMarks == 0

\* SELECT * FROM questions WHERE 1=1 [AND unit = ?] [AND bloom_level = ?]
\* [AND difficulty = ?] [AND marks = ?]; SQLite scans the table in rowid order.
get_questions_by_filters(table, unit, level, difficulty, marks) ==
    SelectSeq(table, LAMBDA q :
        /\ (unit = NoText \/ q.unit = unit)
        /\ (level = NoText \/ q.bloom_level = level)
        /\ (difficulty = NoText \/ q.difficulty = difficulty)
        /\ (marks = NoMarks \/ q.marks = marks))

\* save_questions: one INSERT per question, ids from AUTOINCREMENT.
save_questions(table, first_id, classified) ==
    table \o [i \in 1..Len(classified) |->
                [id |-> first_id + i - 1,
                 unit |-> classified[i].unit,
                 question |-> classified[i].question,
                 marks |-> classified[i].marks,
                 bloom_level |-> classified[i].bloom_level,
                 difficulty |-> classified[i].difficulty]]

(***************************************************************************)
(* paper_generator.py                                                      *)
(***************************************************************************)
max_attempts == 1000

Key(q) == <<q.unit, q.marks, q.bloom_level>>

\* organize_questions: the dict's lists, in the insertion order of their keys.
organize_questions(qs) ==
    LET indices == [i \in 1..Len(qs) |-> i]
        firsts == SelectSeq(indices, LAMBDA i :
                      \A j \in 1..(i - 1) : Key(qs[j]) # Key(qs[i]))
    IN  [g \in 1..Len(firsts) |->
            SelectSeq(qs, LAMBDA q : Key(q) = Key(qs[firsts[g]]))]

\* The questions in the order the nested loops of find_best_candidate visit
\* them.
RECURSIVE IterationOrder(_)
IterationOrder(by_criteria) ==
    IF by_criteria = <<>> THEN <<>>
    ELSE by_criteria[1] \o IterationOrder(Tail(by_criteria))

\* calculate_fitness_score. The score is returned as the fraction num/den of
\*   score * 100 * remaining
\* (remaining > 0 is the same for all the candidates of one step, so the
\* order of the scores is kept); targets are in hundredths of a mark.
\* The score without the term of the unit distribution.
calculate_fitness_score_NoUnitTerm(q, units, targets, remaining) ==
    LET ten == 1000 * remaining * q.marks
        bloom_term ==
            IF q.bloom_level \in DOMAIN targets /\ targets[q.bloom_level] > 0
            THEN Min(ten, remaining * targets[q.bloom_level]) ELSE 0
        mark_fit == 200 * q.marks * (remaining - Abs(remaining - q.marks))
    IN  [num |-> bloom_term + mark_fit, den |-> q.marks]

calculate_fitness_score(q, units, targets, remaining) ==
    LET ten == 1000 * remaining * q.marks
        unit_term ==
            IF q.unit \in DOMAIN units /\ units[q.unit] > 0
            THEN Min(ten, 100 * remaining * units[q.unit]) ELSE 0
        bloom_term ==
            IF q.bloom_level \in DOMAIN targets /\ targets[q.bloom_level] > 0
            THEN Min(ten, remaining * targets[q.bloom_level]) ELSE 0
        mark_fit == 200 * q.marks * (remaining - Abs(remaining - q.marks))
    IN  [num |-> unit_term + bloom_term + mark_fit, den |-> q.marks]

ScoreLess(a, b) == a.num * b.den < b.num * a.den

\* The filter without its test of the ids already selected.
IsCandidate_NoIdTest(q, selected_ids, remaining) == ~(q.marks > remaining)

\* The filter without its test of the marks against the remaining budget.
IsCandidate_NoMarksTest(q, selected_ids, remaining) == q.id \notin selected_ids

\* The candidate filter of find_best_candidate (the two `continue`s).
IsCandidate(q, selected_ids, remaining) ==
    /\ q.id \notin selected_ids
    /\ ~(q.marks > remaining)

\* The last candidate with the greatest score.
BestOf_LastOfTies(candidates, units, targets, remaining) ==
    LET scored == {<<i, calculate_fitness_score(candidates[i], units, targets,
                                                remaining)>> :
                      i \in 1..Len(candidates)}
        best == CHOOSE p \in scored : \A q \in scored :
                    /\ ~ScoreLess(p[2], q[2])
                    /\ q[1] > p[1] => ScoreLess(q[2], p[2])
    IN  candidates[best[1]]

\* candidates.sort(key=score, reverse=True)[0]: the sort is stable, so the
\* first candidate with the greatest score.
BestOf(candidates, units, targets, remaining) ==
    LET scored == {<<i, calculate_fitness_score(candidates[i], units, targets,
                                                remaining)>> :
                      i \in 1..Len(candidates)}
        best == CHOOSE p \in scored : \A q \in scored :
                    /\ ~ScoreLess(p[2], q[2])
                    /\ q[1] < p[1] => ScoreLess(q[2], p[2])
    IN  candidates[best[1]]

find_best_candidate(by_criteria, chosen, remaining, units, targets) ==
    LET selected_ids == {chosen[i].id : i \in 1..Len(chosen)}
        candidates == SelectSeq(IterationOrder(by_criteria),
                          LAMBDA q : IsCandidate(q, selected_ids, remaining))
    IN  IF candidates = <<>> THEN None
        ELSE BestOf(candidates, units, targets, remaining)

\* The guard of the selection loop of generate_paper.
\* The loop guard without the cap on the attempts.
LoopGuard_NoCap ==
    /\ Len(selected_questions) < num_questions
    /\ remaining_marks > 0

\* The loop guard without its test of the remaining marks.
LoopGuard_NoMarksTest ==
    /\ Len(selected_questions) < num_questions
    /\ attempts < max_attempts

LoopGuard ==
    /\ Len(selected_questions) < num_questions
    /\ remaining_marks > 0
    /\ attempts < max_attempts

\* The acceptance test with the ratio of 0.7 alone.
Acceptable_RatioOnly(chosen, n) == 10 * Len(chosen) >= 7 * n

\* The acceptance test with the floor of 3 alone.
Acceptable_FloorOnly(chosen, n) == Len(chosen) >= 3

\* len(selected_questions) >= max(3, num_questions * 0.7)
Acceptable(chosen, n) == 10 * Len(chosen) >= Max(30, 7 * n)

\* The fallback's test without the limit on the marks.
WithinOverage_NoLimit(sum, marks, target) == TRUE

\* total + q['marks'] <= target_marks * 1.1
WithinOverage(sum, marks, target) == 10 * (sum + marks) <= 11 * target

\* The results random.shuffle can leave in a copy of qs.
Shuffles(qs) ==
    {[i \in 1..Len(qs) |-> qs[p[i]]] :
        p \in {f \in [1..Len(qs) -> 1..Len(qs)] :
                  \A i, j \in 1..Len(qs) : f[i] = f[j] => i = j}}

\* `if not all_questions: return None`
\* generate_paper without its early return on an empty pool.
PoolIsEmpty_Never(qs) == FALSE

\* if not all_questions
PoolIsEmpty(qs) == qs = <<>>

\* generate_paper until its loop: lines 25-43.
generate_paper(t, n, ud, bd) ==
    /\ total_marks' = t
    /\ num_questions' = n
    /\ unit_distribution' = ud
    /\ bloom_distribution' = bd
    /\ caller_units' = ud
    /\ caller_blooms' = bd
    /\ all_questions' = get_questions_by_filters(questions, NoText, NoText, NoText, NoMarks)
    /\ IF PoolIsEmpty(all_questions')
       THEN /\ result' = NoPaper
            /\ returned_by' = "empty"
            /\ pc' = "done"
            /\ UNCHANGED <<bloom_targets, questions_by_criteria,
                           selected_questions, remaining_marks, attempts>>
       ELSE /\ bloom_targets' = [l \in DOMAIN bd |-> bd[l] * t]
            /\ selected_questions' = <<>>
            /\ remaining_marks' = t
            /\ attempts' = 0
            /\ questions_by_criteria' = organize_questions(all_questions')
            /\ pc' = "loop"
            /\ UNCHANGED <<result, returned_by>>
    /\ UNCHANGED <<available, position, selected, total>>

\* A target left as it was when a question is selected.
Decrement_Never(targets, key, amount) == targets

\* `if key in targets: targets[key] -= amount` (lines 64-67).
Decrement(targets, key, amount) ==
    IF key \in DOMAIN targets
    THEN [targets EXCEPT ![key] = @ - amount]
    ELSE targets

\* One evaluation of the loop guard and, when it holds, one iteration:
\* lines 46-70.
SelectionStep ==
    /\ pc = "loop"
    /\ IF LoopGuard
       THEN LET candidate ==
                    find_best_candidate(questions_by_criteria,
                        selected_questions, remaining_marks,
                        unit_distribution, bloom_targets)
            IN  /\ attempts' = attempts + 1
                /\ IF candidate # None
                   THEN /\ selected_questions' =
                               Append(selected_questions, candidate)
                        /\ remaining_marks' = remaining_marks - candidate.marks
                        /\ unit_distribution' =
                               Decrement(unit_distribution, candidate.unit,
                                         candidate.marks)
                        /\ bloom_targets' =
                               Decrement(bloom_targets, candidate.bloom_level,
                                         100 * candidate.marks)
                        /\ pc' = "loop"
                   ELSE /\ pc' = "accept"
                        /\ UNCHANGED <<selected_questions, remaining_marks,
                                       unit_distribution, bloom_targets>>
       ELSE /\ pc' = "accept"
            /\ UNCHANGED <<attempts, selected_questions, remaining_marks,
                           unit_distribution, bloom_targets>>
    /\ UNCHANGED <<questions, next_id, current_paper, response, total_marks,
                   num_questions, bloom_distribution, caller_units,
                   caller_blooms, all_questions, questions_by_criteria, available, position,
                   selected, total, result, returned_by, question_text,
                   bloom_level, question_marks, question_difficulty,
                   paper_questions, is_valid, issues,
                   synthesizer>>

\* Lines 72-77, and the call of generate_paper_relaxed up to its loop
\* (lines 156-163).
AcceptanceTest ==
    /\ pc = "accept"
    /\ IF Acceptable(selected_questions, num_questions)
       THEN /\ result' = selected_questions
            /\ returned_by' = "primary"
            /\ pc' = "done"
            /\ UNCHANGED <<available, position, selected, total>>
       ELSE /\ available' \in Shuffles(all_questions)
            /\ position' = 1
            /\ selected' = <<>>
            /\ total' = 0
            /\ pc' = "relaxed"
            /\ UNCHANGED <<result, returned_by>>
    /\ UNCHANGED <<questions, next_id, current_paper, response, total_marks,
                   num_questions, unit_distribution, bloom_distribution,
                   caller_units, caller_blooms, all_questions, bloom_targets,
                   questions_by_criteria, selected_questions, remaining_marks,
                   attempts, question_text, bloom_level, question_marks,
                   question_difficulty, paper_questions, is_valid, issues,
                   synthesizer>>

\* `return selected if len(selected) >= 3 else None`
\* The fallback returning whatever it selected.
RelaxedResult_Always(chosen) == chosen

\* return selected if len(selected) >= 3 else None
RelaxedResult(chosen) == IF Len(chosen) >= 3 THEN chosen ELSE NoPaper

\* One iteration of the for loop of generate_paper_relaxed, or its end and
\* the return: lines 165-172.
RelaxedStep ==
    /\ pc = "relaxed"
    /\ IF position <= Len(available) /\ ~(Len(selected) >= num_questions)
       THEN LET q == available[position]
            IN  /\ IF WithinOverage(total, q.marks, total_marks)
                   THEN /\ selected' = Append(selected, q)
                        /\ total' = total + q.marks
                   ELSE UNCHANGED <<selected, total>>
                /\ position' = position + 1
                /\ UNCHANGED <<pc, result, returned_by>>
       ELSE /\ result' = RelaxedResult(selected)
            /\ returned_by' = "relaxed"
            /\ pc' = "done"
            /\ UNCHANGED <<selected, total, position>>
    /\ UNCHANGED <<questions, next_id, current_paper, response, total_marks,
                   num_questions, unit_distribution, bloom_distribution,
                   caller_units, caller_blooms, all_questions, bloom_targets,
                   questions_by_criteria, selected_questions, remaining_marks,
                   attempts, available, question_text, bloom_level,
                   question_marks, question_difficulty, paper_questions,
                   is_valid, issues,
                   synthesizer>>

\* The three tests of validate_paper_constraints, lines 330, 335 and 340.
CountShort(qs, n) == 10 * Len(qs) < 8 * n

MarksOff(qs, t) == 10 * Abs(SumMarks(qs) - t) > 2 * t

\* len(question_texts) != len(set(question_texts))
HasDuplicateText(qs) ==
    Len(qs) # Cardinality({qs[i].question : i \in 1..Len(qs)})

\* The validator leaving at its first issue.
validate_paper_constraints_FirstIssue(qs, t, n) ==
    LET found == IF CountShort(qs, n) THEN <<"count">>
                 ELSE IF MarksOff(qs, t) THEN <<"marks">>
                 ELSE IF HasDuplicateText(qs) THEN <<"duplicate">>
                 ELSE <<>>
    IN  [is_valid |-> Len(found) = 0, issues |-> found]

\* validate_paper_constraints, lines 320-344. An issue is modelled by the
\* test that appended it.
validate_paper_constraints(qs, t, n) ==
    LET count_issue == IF CountShort(qs, n) THEN <<"count">> ELSE <<>>
        marks_issue == IF MarksOff(qs, t) THEN <<"marks">> ELSE <<>>
        text_issue == IF HasDuplicateText(qs) THEN <<"duplicate">> ELSE <<>>
        found == count_issue \o marks_issue \o text_issue
    IN  [is_valid |-> Len(found) = 0, issues |-> found]

(***************************************************************************)
(* Bounds and input sets                                                   *)
(***************************************************************************)
MaxPool == 3        \* rows the table holds at most
MaxWords == 3       \* tokens of a classified text at most

MaxId == MaxPool + 1   \* rows ever inserted at most

Units == {"Unit 1", "Unit 2"}

\* Draft questions of generate_questions_from_text: a template of the
\* provisional level with the topic filled in ("Explain {topic} ...",
\* "Show how {topic} works ..."), and marks the level is an option for
\* (2: Remember, Understand; 5: Understand, Apply; 10: Apply .. Create).
DraftKinds ==
    {[unit |-> "Unit 1", marks |-> 2, bloom_level |-> "Understand",
      question |-> <<"Explain", "stacks">>],
     [unit |-> "Unit 2", marks |-> 2, bloom_level |-> "Understand",
      question |-> <<"Explain", "stacks">>],
     [unit |-> "Unit 1", marks |-> 5, bloom_level |-> "Understand",
      question |-> <<"Explain", "stacks">>],
     [unit |-> "Unit 1", marks |-> 10, bloom_level |-> "Apply",
      question |-> <<"show", "how", "stacks", "works">>]}

Drafts == DraftKinds

\* A draft persisted with the synthesizer's provisional level.
ClassifiedDraft_KeepsProvisional(q) ==
    [unit |-> q.unit,
     question |-> q.question,
     marks |-> q.marks,
     bloom_level |-> q.bloom_level,
     difficulty |-> determine_difficulty(q.bloom_level, q.marks)]

\* upload_file, lines 85-95: each draft with the classifier's tags.
ClassifiedDraft(q) ==
    LET classification == classify_question(q.question, q.marks)
    IN  [unit |-> q.unit,
         question |-> q.question,
         marks |-> q.marks,
         bloom_level |-> classification.bloom_level,
         difficulty |-> classification.difficulty]

Classified(drafts) == [i \in 1..Len(drafts) |-> ClassifiedDraft(drafts[i])]

\* The dicts create_paper can build from the form (entries > 0 only).
UnitDistributions ==
    {<<>>, [u \in {"Unit 1"} |-> 10],
     [u \in Units |-> IF u = "Unit 1" THEN 10 ELSE 4]}
BloomDistributions == {<<>>, [l \in {"Understand"} |-> 50]}

\* The distributions of the forms posted to create_paper.
Forms ==
    {[units |-> <<>>, blooms |-> <<>>],
     [units |-> [u \in {"Unit 1"} |-> 10],
      blooms |-> [l \in {"Understand"} |-> 50]]}

(***************************************************************************)
(* app.py                                                                  *)
(***************************************************************************)
FrameInit ==
    /\ total_marks = 0
    /\ num_questions = 0
    /\ unit_distribution = <<>>
    /\ bloom_distribution = <<>>
    /\ caller_units = <<>>
    /\ caller_blooms = <<>>
    /\ all_questions = <<>>
    /\ bloom_targets = <<>>
    /\ questions_by_criteria = <<>>
    /\ selected_questions = <<>>
    /\ remaining_marks = 0
    /\ attempts = 0
    /\ available = <<>>
    /\ position = 0
    /\ selected = <<>>
    /\ total = 0
    /\ result = NoPaper
    /\ returned_by = "none"

frame == <<total_marks, num_questions, unit_distribution, bloom_distribution,
           caller_units, caller_blooms, all_questions, bloom_targets, questions_by_criteria,
           selected_questions, remaining_marks, attempts, available, position,
           selected, total, result, returned_by>>

classifier ==
    <<question_text, bloom_level, question_marks, question_difficulty>>

validator == <<paper_questions, is_valid, issues>>

\* No classification and no validation was asked for yet.
ClassifierInit ==
    /\ question_text = <<>>
    /\ bloom_level = NoLevel
    /\ question_marks = 0
    /\ question_difficulty = NoLevel

ValidatorInit ==
    /\ paper_questions = <<>>
    /\ is_valid = TRUE
    /\ issues = <<>>

SynthesizerInit ==
    /\ unit_topics = <<>>
    /\ draft_questions = <<>>
    /\ balanced = <<>>

\* upload_file: the drafts of one document are classified and inserted.
Upload(drafts) ==
    /\ pc = "idle"
    /\ drafts # <<>>
    /\ Len(questions) + Len(drafts) <= MaxPool
    /\ next_id + Len(drafts) - 1 <= MaxId
    /\ questions' = save_questions(questions, next_id, Classified(drafts))
    /\ next_id' = next_id + Len(drafts)
    /\ response' = "uploaded"
    /\ UNCHANGED <<current_paper, pc, frame, classifier, validator,
                   synthesizer>>

\* create_paper up to and including the call of generate_paper.
CreatePaper(t, n, ud, bd) ==
    /\ pc = "idle"
    /\ generate_paper(t, n, ud, bd)
    /\ response' = "pending"
    /\ UNCHANGED <<questions, next_id, current_paper, classifier, validator,
                   synthesizer>>

\* create_paper after generate_paper has returned: lines 163-173.
CreatePaperReturn ==
    /\ pc = "done"
    /\ IF result = NoPaper \/ result = <<>>
       THEN /\ response' = "could_not_generate"
            /\ UNCHANGED current_paper
       ELSE /\ current_paper' = result
            /\ response' = "generated"
    /\ pc' = "idle"
    /\ total_marks' = 0
    /\ num_questions' = 0
    /\ unit_distribution' = <<>>
    /\ bloom_distribution' = <<>>
    /\ caller_units' = <<>>
    /\ caller_blooms' = <<>>
    /\ all_questions' = <<>>
    /\ bloom_targets' = <<>>
    /\ questions_by_criteria' = <<>>
    /\ selected_questions' = <<>>
    /\ remaining_marks' = 0
    /\ attempts' = 0
    /\ available' = <<>>
    /\ position' = 0
    /\ selected' = <<>>
    /\ total' = 0
    /\ result' = NoPaper
    /\ returned_by' = "none"
    /\ UNCHANGED <<questions, next_id, classifier, validator,
                   synthesizer>>

\* The first question of the paper with the given id, or None.
FindInPaper(paper, question_id) ==
    IF \E i \in 1..Len(paper) : paper[i].id = question_id
    THEN paper[CHOOSE i \in 1..Len(paper) :
                  /\ paper[i].id = question_id
                  /\ \A j \in 1..(i - 1) : paper[j].id # question_id]
    ELSE None

\* The alternatives without the filter of the questions already in the paper.
Alternatives_WithPaper(table, paper, q) ==
    get_questions_by_filters(table, q.unit, q.bloom_level, NoText, q.marks)

\* The alternatives looked up without the marks of the question.
Alternatives_AnyMarks(table, paper, q) ==
    SelectSeq(get_questions_by_filters(table, q.unit, q.bloom_level, NoText,
                                       NoMarks),
              LAMBDA a : a.id \notin {paper[i].id : i \in 1..Len(paper)})

\* replace_question, lines 226-235: the pool's questions of the same unit,
\* level and marks that are not in the paper.
Alternatives(table, paper, q) ==
    SelectSeq(get_questions_by_filters(table, q.unit, q.bloom_level, NoText,
                                       q.marks),
              LAMBDA a : a.id \notin {paper[i].id : i \in 1..Len(paper)})

\* replace_question, lines 241-245: the first entry with the id is replaced.
ReplaceFirst(paper, question_id, replacement) ==
    [i \in 1..Len(paper) |->
        IF paper[i].id = question_id
           /\ \A j \in 1..(i - 1) : paper[j].id # question_id
        THEN replacement ELSE paper[i]]

replace_question(question_id) ==
    /\ pc = "idle"
    /\ IF current_paper = NoFile
       THEN /\ response' = "error"
            /\ UNCHANGED current_paper
       ELSE LET question_to_replace == FindInPaper(current_paper, question_id)
            IN  IF question_to_replace = None
                THEN /\ response' = "not_found"
                     /\ UNCHANGED current_paper
                ELSE LET alternatives ==
                             Alternatives(questions, current_paper,
                                          question_to_replace)
                     IN  IF alternatives = <<>>
                         THEN /\ response' = "no_alternative"
                              /\ UNCHANGED current_paper
                         ELSE /\ current_paper' =
                                     ReplaceFirst(current_paper, question_id,
                                                  alternatives[1])
                              /\ response' = "replaced"
    /\ UNCHANGED <<questions, next_id, pc, frame, classifier, validator,
                   synthesizer>>

\* remove_question, line 263.
WithoutId(paper, question_id) ==
    SelectSeq(paper, LAMBDA q : q.id # question_id)

remove_question(question_id) ==
    /\ pc = "idle"
    /\ IF current_paper = NoFile
       THEN /\ response' = "error"
            /\ UNCHANGED current_paper
       ELSE /\ current_paper' = WithoutId(current_paper, question_id)
            /\ response' = "removed"
    /\ UNCHANGED <<questions, next_id, pc, frame, classifier, validator,
                   synthesizer>>

\* A reset that clears the database and leaves the paper file.
reset_KeepsPaper ==
    /\ pc = "idle"
    /\ questions' = <<>>
    /\ response' = "reset"
    /\ UNCHANGED <<next_id, current_paper, pc, frame, classifier, validator,
                   synthesizer>>

\* reset: clear_all_data, then every file of uploads/ and exports/ is removed.
\* AUTOINCREMENT ids are not reused after DELETE.
reset ==
    /\ pc = "idle"
    /\ questions' = <<>>
    /\ current_paper' = NoFile
    /\ response' = "reset"
    /\ UNCHANGED <<next_id, pc, frame, classifier, validator,
                   synthesizer>>

Init ==
    /\ questions = <<>>
    /\ next_id = 1
    /\ current_paper = NoFile
    /\ response = "none"
    /\ pc = "idle"
    /\ FrameInit
    /\ ClassifierInit
    /\ ValidatorInit
    /\ SynthesizerInit

Next ==
    \/ \E d \in Drafts : Upload(<<d>>)
    \/ \E form \in Forms : CreatePaper(20, 3, form.units, form.blooms)
    \/ SelectionStep
    \/ AcceptanceTest
    \/ RelaxedStep
    \/ CreatePaperReturn
    \/ \E i \in 0..MaxId : replace_question(i)
    \/ \E i \in 0..MaxId : remove_question(i)
    \/ reset

Spec == Init /\ [][Next]_vars

(***************************************************************************)
(* generate_paper over every pool of at most MaxPool questions             *)
(***************************************************************************)
\* The classified questions a pool is built from: the drafts of upload_file
\* with the classifier's tags.
PoolQuestions == {ClassifiedDraft(d) : d \in Drafts}

\* The table after the classified questions were inserted into an empty one.
PoolOf(classified) == save_questions(<<>>, 1, classified)

GenPools(sizes) ==
    {PoolOf(c) : c \in UNION {[1..k -> PoolQuestions] : k \in sizes}}

GenTotals == {0 - 10, 12, 20}
GenCounts == {0, 2, 3, 5}

InitWithPool(pool) ==
    /\ questions = pool
    /\ next_id = Len(pool) + 1
    /\ current_paper = NoFile
    /\ response = "none"
    /\ pc = "idle"
    /\ FrameInit
    /\ ClassifierInit
    /\ ValidatorInit
    /\ SynthesizerInit

Call(t, n, ud, bd) ==
    /\ pc = "idle"
    /\ generate_paper(t, n, ud, bd)
    /\ UNCHANGED <<questions, next_id, current_paper, response, classifier, validator,
                   synthesizer>>

InitGen == \E pool \in GenPools(0..MaxPool) : InitWithPool(pool)

CallGen ==
    \E t \in GenTotals, n \in GenCounts,
       ud \in UnitDistributions, bd \in BloomDistributions : Call(t, n, ud, bd)

NextGen == CallGen \/ SelectionStep \/ AcceptanceTest \/ RelaxedStep

SpecGen == InitGen /\ [][NextGen]_vars

(***************************************************************************)
(* generate_paper on the end-to-end pool: 10 questions of 10 marks, 5 in   *)
(* each unit, total_marks 50, num_questions 5                              *)
(***************************************************************************)
E2ESize == 5 + 5

\* A question of 10 marks with a text of the level: "define" is a Remember
\* keyword and "explain" an Understand keyword.
E2EQuestion(unit, level) ==
    [unit |-> unit,
     question |-> IF level = "Remember" THEN <<"Define", "stacks">>
                  ELSE <<"Explain", "stacks">>,
     marks |-> 10, bloom_level |-> level,
     difficulty |-> determine_difficulty(level, 10)]

\* The two units are interchangeable (5 questions and 25 marks each): the
\* first question is put in Unit 1. Every interleaving of the units.
E2EUnits ==
    {f \in [1..E2ESize -> Units] :
        /\ f[1] = "Unit 1"
        /\ Cardinality({i \in 1..E2ESize : f[i] = "Unit 1"}) = 5}

\* The rank of question i among the questions of its unit, in pool order.
RankInUnit(unit_of, i) == Cardinality({j \in 1..i : unit_of[j] = unit_of[i]})

\* Levels: in each unit any number k[unit] of the 5 questions is Understand,
\* the others Remember, and the Understand ones are the unit's first or last
\* k[unit] questions. find_best_candidate visits the pool by (unit, marks,
\* level) group, the groups in the order of their first question, so a pool
\* is told from another by the sizes and the order of its groups only: these
\* pools give every size and every order of the groups.
E2ELevel(unit_of, k, understand_first, i) ==
    LET rank == RankInUnit(unit_of, i)
        u == unit_of[i]
    IN  IF (understand_first[u] /\ rank <= k[u])
           \/ (~understand_first[u] /\ rank > 5 - k[u])
        THEN "Understand" ELSE "Remember"

E2EPool(unit_of, k, understand_first) ==
    PoolOf([i \in 1..E2ESize |->
        E2EQuestion(unit_of[i], E2ELevel(unit_of, k, understand_first, i))])

InitE2E ==
    \E unit_of \in E2EUnits :
        \E k \in [Units -> 0..5], understand_first \in [Units -> BOOLEAN] :
            InitWithPool(E2EPool(unit_of, k, understand_first))

CallE2E ==
    Call(50, 5, [u \in Units |-> 25], [l \in {"Understand"} |-> 50])

NextE2E == CallE2E \/ SelectionStep \/ AcceptanceTest

SpecE2E == InitE2E /\ [][NextE2E]_vars

(***************************************************************************)
(* The selection loop against its attempt cap: a pool of one question, and *)
(* a pool of more questions than max_attempts                              *)
(***************************************************************************)
InitCap ==
    LET q == ClassifiedDraft(CHOOSE d \in Drafts :
                                 d.unit = "Unit 1" /\ d.marks = 2)
    IN  \E k \in {1, max_attempts + 1} :
            InitWithPool(PoolOf([i \in 1..k |-> q]))

CallCap ==
    \E t \in {20, 2 * (max_attempts + 1)}, n \in {5, max_attempts + 1} :
        Call(t, n, <<>>, <<>>)

NextCap == CallCap \/ SelectionStep

SpecCap == InitCap /\ [][NextCap]_vars

(***************************************************************************)
(* determine_bloom_level over every text of at most MaxWords tokens        *)
(***************************************************************************)
Texts == UNION {[1..k -> Words] : k \in 0..MaxWords}

InitClassify ==
    /\ questions = <<>>
    /\ next_id = 1
    /\ current_paper = NoFile
    /\ response = "none"
    /\ pc = "idle"
    /\ FrameInit
    /\ question_text \in Texts
    /\ bloom_level = NoLevel
    /\ question_marks = 0
    /\ question_difficulty = NoLevel
    /\ ValidatorInit
    /\ SynthesizerInit

Classify ==
    /\ pc = "idle"
    /\ bloom_level' = determine_bloom_level(question_text)
    /\ pc' = "classified"
    /\ UNCHANGED <<questions, next_id, current_paper, response, frame,
                   question_text, question_marks, question_difficulty,
                   validator,
                   synthesizer>>

NextClassify == Classify

SpecClassify == InitClassify /\ [][NextClassify]_vars


(***************************************************************************)
(* determine_difficulty on every level and every marks up to MaxMarks      *)
(***************************************************************************)
MaxMarks == 12

\* A level outside bloom_difficulty, which gets the default score.
UnknownLevel == "Unknown"

InitDifficulty ==
    /\ questions = <<>>
    /\ next_id = 1
    /\ current_paper = NoFile
    /\ response = "none"
    /\ pc = "idle"
    /\ FrameInit
    /\ question_text = <<>>
    /\ bloom_level \in Range(LEVELS) \cup {UnknownLevel}
    /\ question_marks \in 0..MaxMarks
    /\ question_difficulty = NoLevel
    /\ ValidatorInit
    /\ SynthesizerInit

Grade ==
    /\ pc = "idle"
    /\ question_difficulty' = determine_difficulty(bloom_level, question_marks)
    /\ pc' = "graded"
    /\ UNCHANGED <<questions, next_id, current_paper, response, frame,
                   question_text, bloom_level, question_marks, validator,
                   synthesizer>>

NextDifficulty == Grade

SpecDifficulty == InitDifficulty /\ [][NextDifficulty]_vars

(***************************************************************************)
(* validate_paper_constraints on every paper of at most MaxPool questions  *)
(***************************************************************************)
ValidateTotals == {0 - 10, 0, 4, 12, 20}
ValidateCounts == {0, 2, 3, 5}

Validate(qs, t, n) ==
    /\ pc = "idle"
    /\ paper_questions' = qs
    /\ total_marks' = t
    /\ num_questions' = n
    /\ LET report == validate_paper_constraints(qs, t, n)
       IN  /\ is_valid' = report.is_valid
           /\ issues' = report.issues
    /\ pc' = "validated"
    /\ UNCHANGED <<questions, next_id, current_paper, response,
                   unit_distribution, bloom_distribution, caller_units,
                   caller_blooms, all_questions, bloom_targets,
                   questions_by_criteria, selected_questions, remaining_marks,
                   attempts, available, position, selected, total, result,
                   returned_by, classifier, synthesizer>>

InitValidate == InitWithPool(<<>>)

NextValidate ==
    \E qs \in GenPools(0..MaxPool), t \in ValidateTotals,
       n \in ValidateCounts : Validate(qs, t, n)

SpecValidate == InitValidate /\ [][NextValidate]_vars

(***************************************************************************)
(* question_generator.py: balance_question_distribution on lists of the    *)
(* drafts of two units, grouped by unit or alternating                     *)
(***************************************************************************)
MaxPerUnit == 16    \* drafts of one unit in a list at most

\* seq[:n]
Take(seq, n) == SubSeq(seq, 1, Min(n, Len(seq)))

RECURSIVE Concat(_)
Concat(lists) ==
    IF lists = <<>> THEN <<>> ELSE lists[1] \o Concat(Tail(lists))

\* [q for q in questions if q['unit'] == unit]
OfUnit(qs, unit) == SelectSeq(qs, LAMBDA q : q.unit = unit)

\* unit_counts.keys(): the units in the order of their first draft.
UnitKeys(qs) ==
    LET indices == [i \in 1..Len(qs) |-> i]
        firsts == SelectSeq(indices, LAMBDA i :
                      \A j \in 1..(i - 1) : qs[j].unit # qs[i].unit)
    IN  [g \in 1..Len(firsts) |-> qs[firsts[g]].unit]

\* max(unit_counts.values()) if unit_counts else 0
max_per_unit(qs) ==
    IF qs = <<>> THEN 0
    ELSE CHOOSE m \in {Len(OfUnit(qs, u)) : u \in Range(UnitKeys(qs))} :
             \A u \in Range(UnitKeys(qs)) : Len(OfUnit(qs, u)) <= m

\* min(unit_counts.values()) if unit_counts else 0
min_per_unit(qs) ==
    IF qs = <<>> THEN 0
    ELSE CHOOSE m \in {Len(OfUnit(qs, u)) : u \in Range(UnitKeys(qs))} :
             \A u \in Range(UnitKeys(qs)) : Len(OfUnit(qs, u)) >= m

\* The trimming with min_per_unit + 2 as the target, without the floor of 8.
balance_question_distribution_NoFloor(qs) ==
    IF max_per_unit(qs) > min_per_unit(qs) * 2
    THEN LET target_per_unit == min_per_unit(qs) + 2
             keys == UnitKeys(qs)
         IN  Concat([g \in 1..Len(keys) |->
                        Take(OfUnit(qs, keys[g]), target_per_unit)])
    ELSE qs

\* balance_question_distribution: lines 215-234.
balance_question_distribution(qs) ==
    IF max_per_unit(qs) > min_per_unit(qs) * 2
    THEN LET target_per_unit == Max(8, min_per_unit(qs) + 2)
             keys == UnitKeys(qs)
         IN  Concat([g \in 1..Len(keys) |->
                        Take(OfUnit(qs, keys[g]), target_per_unit)])
    ELSE qs

\* The k-th draft of a list: its unit and a text of its own.
DraftOf(unit, k) == [unit |-> unit, question |-> k]

\* a drafts of Unit 1 followed by b drafts of Unit 2.
GroupedDrafts(a, b) ==
    [k \in 1..(a + b) |-> DraftOf(IF k <= a THEN "Unit 1" ELSE "Unit 2", k)]

\* a drafts of Unit 1 and b of Unit 2 taken in turn, Unit 1 first, the rest
\* of the longer unit at the end.
AlternatingDrafts(a, b) ==
    [k \in 1..(a + b) |->
        DraftOf(IF k <= 2 * Min(a, b)
                THEN (IF k % 2 = 1 THEN "Unit 1" ELSE "Unit 2")
                ELSE (IF a > b THEN "Unit 1" ELSE "Unit 2"), k)]

BalanceInputs ==
    {GroupedDrafts(a, b) : a, b \in 0..MaxPerUnit}
    \cup {AlternatingDrafts(a, b) : a, b \in 0..MaxPerUnit}

InitBalance ==
    /\ questions = <<>>
    /\ next_id = 1
    /\ current_paper = NoFile
    /\ response = "none"
    /\ pc = "idle"
    /\ FrameInit
    /\ ClassifierInit
    /\ ValidatorInit
    /\ unit_topics = <<>>
    /\ draft_questions \in BalanceInputs
    /\ balanced = <<>>

Balance ==
    /\ pc = "idle"
    /\ balanced' = balance_question_distribution(draft_questions)
    /\ pc' = "balanced"
    /\ UNCHANGED <<questions, next_id, current_paper, response, frame,
                   classifier, validator, unit_topics, draft_questions>>

NextBalance == Balance

SpecBalance == InitBalance /\ [][NextBalance]_vars

(***************************************************************************)
(* question_generator.py: generate_questions_from_text on one unit with    *)
(* every number of topics, and on two units                                *)
(***************************************************************************)
\* extract_key_concepts returns concepts[:15].
max_concepts == 15

\* A topic is a pair: its text and a number that tells extracted concepts
\* apart.
GenericTopics ==
    << <<"the concepts covered", 0>>, <<"the key principles", 0>>,
       <<"the main topics", 0>> >>

\* A list of n distinct extracted concepts.
Concepts(n) == [k \in 1..n |-> <<"concept", k>>]

marks_distribution == <<2, 2, 5, 5, 5, 10, 10, 10>>

\* The topics extended once, not until there are enough.
ExtendTopics_Once(topic_list) ==
    IF Len(topic_list) < Len(marks_distribution)
    THEN topic_list \o Take(topic_list,
                            Len(marks_distribution) - Len(topic_list))
    ELSE topic_list

\* while len(topics) < len(marks_distribution):
\*     topics.extend(topics[:len(marks_distribution) - len(topics)])
RECURSIVE ExtendTopics(_)
ExtendTopics(topic_list) ==
    IF Len(topic_list) < Len(marks_distribution)
    THEN ExtendTopics(topic_list \o
                      Take(topic_list,
                           Len(marks_distribution) - Len(topic_list)))
    ELSE topic_list

Rotate(seq, r) ==
    [i \in 1..Len(seq) |-> seq[((i + r - 1) % Len(seq)) + 1]]

Reverse(seq) == [i \in 1..Len(seq) |-> seq[Len(seq) + 1 - i]]

\* The outcomes of random.shuffle(marks_distribution) examined: the
\* rotations of the list and of its reversal.
MarkOrders ==
    {Rotate(marks_distribution, r) : r \in 0..(Len(marks_distribution) - 1)}
    \cup {Rotate(Reverse(marks_distribution), r) :
              r \in 0..(Len(marks_distribution) - 1)}

\* The outcomes of random.shuffle(topics) examined: the list and its
\* reversal.
TopicOrders(topic_list) == {topic_list, Reverse(topic_list)}

\* The outcomes of random.choice examined: with draw d, the i-th question
\* takes option (d + i) mod len of its options.
Draws == {0, 1}

Choice(options, c) == options[(c % Len(options)) + 1]

bloom_options(marks) ==
    IF marks = 2 THEN <<"Remember", "Understand">>
    ELSE IF marks = 5 THEN <<"Understand", "Apply">>
    ELSE <<"Apply", "Analyze", "Evaluate", "Create">>

\* len(QUESTION_TEMPLATES[level])
TemplateCount(level) ==
    IF level \in {"Remember", "Understand"} THEN 7 ELSE 6

\* The loop of generate_questions_for_unit, lines 179-200, over the
\* shuffled marks and the shuffled topics. A question text is its template
\* (level and index) and its topic.
QuestionsFrom(unit_name, shuffled_marks, shuffled_topics, draw) ==
    LET slice == Take(shuffled_marks, Min(Len(shuffled_topics), 10))
    IN  [i \in 1..Len(slice) |->
            LET level == Choice(bloom_options(slice[i]), draw + i)
            IN  [unit |-> unit_name,
                 question |->
                     [template |-> <<level,
                                     Choice([k \in 1..TemplateCount(level)
                                                |-> k], draw + i)>>,
                      topic |-> shuffled_topics[i]],
                 marks |-> slice[i],
                 bloom_level |-> level]]

\* The topics generate_questions_for_unit works with before it shuffles
\* them: lines 162-172.
TopicsFor(topic_list) ==
    ExtendTopics(IF topic_list = <<>> THEN GenericTopics ELSE topic_list)

\* The units of the text with the topics of each: one unit (also the
\* default "Unit 1" of a text without units) with every number of topics,
\* or two units.
UnitInputs ==
    {<<[unit_name |-> "Unit 1", topics |-> Concepts(n)]>> :
        n \in 0..max_concepts}
    \cup {<<[unit_name |-> "Unit 1", topics |-> Concepts(a)],
            [unit_name |-> "Unit 2", topics |-> Concepts(b)]>> :
              a, b \in {0, 3, max_concepts}}

InitSynth ==
    /\ questions = <<>>
    /\ next_id = 1
    /\ current_paper = NoFile
    /\ response = "none"
    /\ pc = "idle"
    /\ FrameInit
    /\ ClassifierInit
    /\ ValidatorInit
    /\ unit_topics \in UnitInputs
    /\ draft_questions = <<>>
    /\ balanced = <<>>

\* One iteration of the loop of generate_questions_from_text, lines 86-92:
\* the questions of the next unit are generated and appended.
GenerateForUnit ==
    /\ pc = "idle"
    /\ unit_topics # <<>>
    /\ \E shuffled_marks \in MarkOrders,
          shuffled_topics \in TopicOrders(TopicsFor(unit_topics[1].topics)),
          draw \in Draws :
           draft_questions' =
               draft_questions \o
               QuestionsFrom(unit_topics[1].unit_name, shuffled_marks,
                             shuffled_topics, draw)
    /\ unit_topics' = Tail(unit_topics)
    /\ UNCHANGED <<questions, next_id, current_paper, response, pc, frame,
                   classifier, validator, balanced>>

\* The end of generate_questions_from_text, lines 95-97.
BalanceGenerated ==
    /\ pc = "idle"
    /\ unit_topics = <<>>
    /\ balanced' = balance_question_distribution(draft_questions)
    /\ pc' = "synthesized"
    /\ UNCHANGED <<questions, next_id, current_paper, response, frame,
                   classifier, validator, unit_topics, draft_questions>>

NextSynth == GenerateForUnit \/ BalanceGenerated

SpecSynth == InitSynth /\ [][NextSynth]_vars

(***************************************************************************)
(* Properties of generate_paper                                            *)
(***************************************************************************)
Ids(qs) == {qs[i].id : i \in 1..Len(qs)}

\* The marks selected before position i of qs.
MarksBefore(qs, i) == SumMarks(SubSeq(qs, 1, i - 1))

Returned == pc = "done" /\ result # NoPaper

\* C1: a list generate_paper returns holds no question id twice, whether
\* the primary loop or the relaxed fallback selected it.
C1_NoDuplicateIds ==
    Returned =>
        \A i, j \in 1..Len(result) : i # j => result[i].id # result[j].id

C1_Witness ==
    /\ Returned
    /\ returned_by = "primary"
    /\ Len(result) = 3
    /\ Len(all_questions) = 3

\* C2 as stated: every question of a returned list had, when it was
\* selected, marks no greater than the budget then remaining (total_marks
\* minus the marks selected before it), the relaxed fallback included.
C2_Original ==
    Returned =>
        \A i \in 1..Len(result) :
            result[i].marks <= total_marks - MarksBefore(result, i)

\* C2: every question of a list the primary loop returns had, when it was
\* selected, marks no greater than the remaining budget; every question of a
\* list the relaxed fallback returns had marks no greater than
\* 1.1 * total_marks minus the marks selected before it, so it may exceed
\* the remaining budget by up to a tenth of total_marks.
C2_MarksWithinBudget ==
    Returned =>
        \A i \in 1..Len(result) :
            IF returned_by = "primary"
            THEN result[i].marks <= total_marks - MarksBefore(result, i)
            ELSE 10 * (MarksBefore(result, i) + result[i].marks)
                     <= 11 * total_marks

\* The fallback returned a question of more marks than the budget left.
C2_Witness ==
    /\ Returned
    /\ returned_by = "relaxed"
    /\ \E i \in 1..Len(result) :
           result[i].marks > total_marks - MarksBefore(result, i)

\* C3: the primary loop terminates within 1000 attempts: every pass through
\* it either leaves for the acceptance test or adds one to attempts, and
\* attempts never exceeds 1000; with a pool of one question and
\* num_questions 5 it leaves at its second attempt, which finds no
\* candidate.
C3_LoopTerminates ==
    /\ [](attempts <= 1000)
    /\ [](pc = "accept" /\ Len(all_questions) = 1 =>
              attempts = 2 /\ Len(selected_questions) = 1)
    /\ [][pc = "loop" =>
              \/ pc' = "accept"
              \/ pc' = "loop" /\ attempts' = attempts + 1]_vars

\* The cap ended the loop: more questions and marks were left to select.
C3_Witness ==
    /\ pc = "accept"
    /\ attempts = 1000
    /\ Len(selected_questions) < num_questions
    /\ remaining_marks > 0
    /\ Len(all_questions) > 1000

\* C4 as stated: in the relaxed fallback the marks selected never exceed
\* 1.1 * total_marks, at any step and for any target.
C4_Original ==
    (pc = "relaxed" \/ returned_by = "relaxed") =>
        10 * total <= 11 * total_marks

\* C4: in the relaxed fallback the marks selected are the sum of the
\* selection and, for a target total_marks >= 0, never exceed
\* 1.1 * total_marks, at any step and in the returned list; for a negative
\* target nothing is selected (the sum stays 0, above the target) and None
\* is returned.
C4_RelaxedWithinOverage ==
    (pc = "relaxed" \/ returned_by = "relaxed") =>
        /\ total = SumMarks(selected)
        /\ total_marks >= 0 => 10 * total <= 11 * total_marks
        /\ total_marks < 0 => selected = <<>>
        /\ pc = "done" =>
               /\ total_marks < 0 => result = NoPaper
               /\ result # NoPaper =>
                      10 * SumMarks(result) <= 11 * total_marks

\* The fallback went over the target, within the tenth allowed.
C4_Witness ==
    /\ pc = "relaxed"
    /\ total > total_marks
    /\ total_marks > 0
    /\ Len(selected) >= 2

\* C5: on a pool of 10 questions of 10 marks, 5 in each of two units, with
\* total_marks 50, num_questions 5, 25 marks per unit and Understand 50,
\* generate_paper returns exactly 5 questions whose marks sum to 50, with
\* at least one question of each unit.
C5_EndToEnd ==
    pc = "done" =>
        /\ result # NoPaper
        /\ Len(result) = 5
        /\ SumMarks(result) = 50
        /\ \A u \in Units : \E i \in 1..Len(result) : result[i].unit = u

C5_Witness ==
    /\ Returned
    /\ returned_by = "primary"
    /\ Len(all_questions) = 10
    /\ Cardinality({i \in 1..Len(result) : result[i].unit = "Unit 1"}) = 3
    /\ \E i \in 1..Len(result) : result[i].bloom_level = "Remember"

\* C6: generate_paper returns the primary selection exactly when it holds
\* at least max(3, 0.7 * num_questions) questions; otherwise it returns what
\* the relaxed fallback returns.
C6_AcceptanceThreshold ==
    (pc = "done" /\ all_questions # <<>>) =>
        /\ returned_by = "primary" <=>
               /\ Len(selected_questions) >= 3
               /\ 10 * Len(selected_questions) >= 7 * num_questions
        /\ returned_by = "primary" => result = selected_questions
        /\ returned_by # "primary" =>
               /\ returned_by = "relaxed"
               /\ result = IF Len(selected) >= 3 THEN selected ELSE NoPaper

\* A primary selection of 3 questions, short of 0.7 * 5, was discarded.
C6_Witness ==
    /\ pc = "done"
    /\ returned_by = "relaxed"
    /\ Len(selected_questions) = 3
    /\ num_questions = 5

\* C7: the relaxed fallback returns its selection exactly when it holds at
\* least 3 questions and None otherwise; a paper generate_paper returns has
\* at least 3 and at most num_questions questions.
C7_RelaxedFloor ==
    /\ (pc = "done" /\ returned_by = "relaxed") =>
           /\ Len(selected) >= 3 => result = selected
           /\ Len(selected) < 3 => result = NoPaper
    /\ Returned => Len(result) >= 3 /\ Len(result) <= num_questions

\* The fallback selected 2 questions and returned None.
C7_Witness ==
    /\ pc = "done"
    /\ returned_by = "relaxed"
    /\ Len(selected) = 2
    /\ result = NoPaper

\* C8: on an empty pool generate_paper returns None without entering the
\* selection loop or the relaxed fallback, and leaves the caller's
\* unit_distribution and bloom_distribution as they were.
C8_EmptyPool ==
    (pc # "idle" /\ questions = <<>>) =>
        /\ pc = "done"
        /\ result = NoPaper
        /\ returned_by = "empty"
        /\ attempts = 0
        /\ selected_questions = <<>>
        /\ position = 0
        /\ selected = <<>>
        /\ unit_distribution = caller_units
        /\ bloom_distribution = caller_blooms

C8_Witness ==
    /\ pc = "done"
    /\ questions = <<>>
    /\ returned_by = "empty"
    /\ caller_units # <<>>
    /\ caller_blooms # <<>>

(***************************************************************************)
(* Properties of the application                                           *)
(***************************************************************************)
\* C9: after any sequence of upload, create-paper, replace, remove and
\* reset, every question of the current paper is a row of the pool.
C9_ReferentialIntegrity ==
    current_paper # NoFile =>
        \A i \in 1..Len(current_paper) :
            \E j \in 1..Len(questions) : questions[j] = current_paper[i]

\* A paper of which a question was removed and another then replaced.
C9_Witness ==
    /\ current_paper # NoFile
    /\ response = "replaced"
    /\ Len(current_paper) = 2
    /\ Len(questions) = 3

(***************************************************************************)
(* Properties of the classifier                                            *)
(***************************************************************************)
IndexOfLevel(level) == CHOOSE i \in 1..Len(LEVELS) : LEVELS[i] = level

\* C10: when some level has a keyword count above 0, determine_bloom_level
\* returns a level of the highest count, and on a tie the first of them in
\* the order Remember, Understand, Apply, Analyze, Evaluate, Create.
C10_HighestCountFirstOnTie ==
    LET counts == level_scores(question_text)
    IN  (pc = "classified" /\ \E l \in Range(LEVELS) : counts[l] > 0) =>
            /\ bloom_level \in Range(LEVELS)
            /\ \A l \in Range(LEVELS) : counts[l] <= counts[bloom_level]
            /\ \A j \in 1..(IndexOfLevel(bloom_level) - 1) :
                   counts[LEVELS[j]] < counts[bloom_level]

\* Understand and Analyze tie on "compare": Understand, the earlier, wins.
C10_Witness ==
    /\ pc = "classified"
    /\ bloom_level = "Understand"
    /\ level_scores(question_text)["Understand"] = 1
    /\ level_scores(question_text)["Analyze"] = 1
    /\ level_scores(question_text)["Remember"] = 0

Counts == level_scores(question_text)

\* C11 as stated: every text with exactly one Remember keyword and exactly
\* one Understand keyword is classified Remember.
C11_Original ==
    (pc = "classified" /\ Counts["Remember"] = 1
                       /\ Counts["Understand"] = 1) =>
        bloom_level = "Remember"

\* C11: a text with exactly one Remember keyword and exactly one Understand
\* keyword is classified Remember exactly when no other level counts more
\* than one keyword; otherwise the level of the highest count wins.
C11_RememberOnTie ==
    (pc = "classified" /\ Counts["Remember"] = 1
                       /\ Counts["Understand"] = 1) =>
        /\ bloom_level = "Remember" <=>
               \A l \in Range(LEVELS) : Counts[l] <= 1
        /\ Counts[bloom_level] >= 1
        /\ \A l \in Range(LEVELS) : Counts[l] <= Counts[bloom_level]

\* "define" and "explain": one keyword of each level and of no other.
C11_Witness ==
    /\ pc = "classified"
    /\ bloom_level = "Remember"
    /\ Len(question_text) = 2
    /\ Counts = [l \in Range(LEVELS) |->
                    IF l \in {"Remember", "Understand"} THEN 1 ELSE 0]
    /\ question_text[1] # question_text[2]

\* The weights and tiers of the difficulty formula, in tenths:
\* 0.6 * w(level) + 0.4 * t(marks).
LevelWeight(level) == IndexOfLevel(level)

MarksTier(m) == IF m <= 2 THEN 1 ELSE IF m <= 5 THEN 2 ELSE 3

Combined(level, m) == 6 * LevelWeight(level) + 4 * MarksTier(m)

\* C12: determine_difficulty returns Easy iff 0.6 w + 0.4 t <= 2.5, Medium
\* iff it is above 2.5 and at most 4.5, and Hard otherwise; (Remember, 1) is
\* Easy, (Apply, 5) is Medium and (Create, 10) is Hard.
C12_DifficultyFormula ==
    (pc = "graded" /\ bloom_level \in Range(LEVELS)) =>
        LET combined == Combined(bloom_level, question_marks)
        IN  /\ question_difficulty \in {"Easy", "Medium", "Hard"}
            /\ question_difficulty = "Easy" <=> combined <= 25
            /\ question_difficulty = "Medium" <=>
                   (combined > 25 /\ combined <= 45)
            /\ (bloom_level = "Remember" /\ question_marks = 1) =>
                   question_difficulty = "Easy"
            /\ (bloom_level = "Apply" /\ question_marks = 5) =>
                   question_difficulty = "Medium"
            /\ (bloom_level = "Create" /\ question_marks = 10) =>
                   question_difficulty = "Hard"

\* Apply with 5 marks: 0.6 * 3 + 0.4 * 2 = 2.6, Medium.
C12_Witness ==
    /\ pc = "graded"
    /\ bloom_level = "Apply"
    /\ question_marks = 5
    /\ question_difficulty = "Medium"

\* The issues a paper must be reported with, one for each failing check.
FailingChecks ==
    (IF 10 * Len(paper_questions) < 8 * num_questions
     THEN {"count"} ELSE {})
    \cup
    (IF 10 * Abs(SumMarks(paper_questions) - total_marks) > 2 * total_marks
     THEN {"marks"} ELSE {})
    \cup
    (IF \E i, j \in 1..Len(paper_questions) :
            i # j /\ paper_questions[i].question = paper_questions[j].question
     THEN {"duplicate"} ELSE {})

\* C13: validate_paper_constraints evaluates its three checks independently:
\* issues holds exactly one entry for each failing check (count shortfall,
\* marks deviation, duplicate text), is_valid is true iff no check fails,
\* and a paper with two questions of the same text is invalid with a
\* duplicate issue.
C13_ValidatorReport ==
    pc = "validated" =>
        /\ Range(issues) = FailingChecks
        /\ Len(issues) = Cardinality(FailingChecks)
        /\ is_valid <=> FailingChecks = {}
        /\ "duplicate" \in FailingChecks =>
               ~is_valid /\ "duplicate" \in Range(issues)

\* A paper failing the three checks at once.
C13_Witness ==
    /\ pc = "validated"
    /\ ~is_valid
    /\ Len(issues) = 3
    /\ Len(paper_questions) = 2

\* Some pool question outside the paper has the unit, level and marks of
\* the paper's question of this id.
HasAlternative(question_id) ==
    \E i \in 1..Len(current_paper), k \in 1..Len(questions) :
        /\ current_paper[i].id = question_id
        /\ questions[k].id \notin Ids(current_paper)
        /\ questions[k].unit = current_paper[i].unit
        /\ questions[k].bloom_level = current_paper[i].bloom_level
        /\ questions[k].marks = current_paper[i].marks

\* C14: with a current paper, replace_question reports NOT_FOUND exactly
\* when the id is not in the paper, and NO_ALTERNATIVE exactly when the id
\* is in the paper and no pool question outside the paper has the same
\* unit, bloom_level and marks; in both cases the stored paper is unchanged.
C14_ReplaceErrors ==
    [][\A question_id \in 0..MaxId :
          (replace_question(question_id) /\ current_paper # NoFile) =>
              /\ response' = "not_found" <=>
                     question_id \notin Ids(current_paper)
              /\ response' = "no_alternative" <=>
                     /\ question_id \in Ids(current_paper)
                     /\ ~HasAlternative(question_id)
              /\ response' \in {"not_found", "no_alternative"} =>
                     current_paper' = current_paper]_vars

\* A question of the paper with no pool question to take its place, while
\* a pool question of other marks is outside the paper.
C14_Witness ==
    /\ response = "no_alternative"
    /\ current_paper # NoFile
    /\ Len(current_paper) = 2
    /\ \E k \in 1..Len(questions) : questions[k].id \notin Ids(current_paper)

\* C15: with a current paper, remove_question called with an id that is
\* absent from the paper signals NotFound instead of success and leaves the
\* stored paper unchanged.
C15_Original ==
    [][\A question_id \in 0..MaxId :
          (/\ remove_question(question_id)
           /\ current_paper # NoFile
           /\ question_id \notin Ids(current_paper)) =>
              /\ response' = "not_found"
              /\ current_paper' = current_paper]_vars

\* What the handler does for an absent id: the paper is rewritten with the
\* same content and success is reported.
C15_AbsentIdReportsSuccess ==
    [][\A question_id \in 0..MaxId :
          (/\ remove_question(question_id)
           /\ current_paper # NoFile
           /\ question_id \notin Ids(current_paper)) =>
              /\ response' = "removed"
              /\ current_paper' = current_paper]_vars

\* A full paper right after a removal: the id removed was not in it.
C15_Witness ==
    /\ response = "removed"
    /\ current_paper # NoFile
    /\ Len(current_paper) = 3

\* C16: the row an upload persists for a draft carries the bloom_level that
\* classify_question derives from the draft's text and the difficulty
\* derived from that level and the draft's marks; the draft's provisional
\* level is persisted only when the classifier returns the same level.
C16_PersistedTagsFromClassifier ==
    [][\A d \in Drafts :
          (Len(questions') = Len(questions) + 1 /\ Upload(<<d>>)) =>
              LET row == questions'[Len(questions')]
                  level == determine_bloom_level(d.question)
              IN  /\ row.question = d.question
                  /\ row.marks = d.marks
                  /\ row.bloom_level = classify_question(d.question, d.marks).bloom_level
                  /\ row.bloom_level = level
                  /\ row.difficulty = determine_difficulty(level, d.marks)
                  /\ row.bloom_level = d.bloom_level => level = d.bloom_level]_vars

\* A persisted row of the draft whose provisional level is Apply and whose
\* text the classifier puts at Remember.
C16_Witness ==
    /\ response = "uploaded"
    /\ \E k \in 1..Len(questions) :
           /\ questions[k].question = <<"show", "how", "stacks", "works">>
           /\ questions[k].marks = 10
           /\ questions[k].bloom_level = "Remember"
           /\ questions[k].difficulty = "Easy"

\* The positions in the pool of the candidates of the coming step: not yet
\* selected and with marks within the remaining marks.
CandidateIndices ==
    {i \in 1..Len(all_questions) :
        /\ all_questions[i].id \notin Ids(selected_questions)
        /\ all_questions[i].marks <= remaining_marks}

\* The fitness score of the pool's i-th question in the coming step.
ScoreAt(i) ==
    calculate_fitness_score(all_questions[i], unit_distribution,
                            bloom_targets, remaining_marks)

\* The position of the first pool question with the unit, marks and level
\* of the i-th.
GroupRank(i) ==
    CHOOSE k \in 1..i :
        /\ Key(all_questions[k]) = Key(all_questions[i])
        /\ \A j \in 1..(k - 1) : Key(all_questions[j]) # Key(all_questions[i])

\* j comes before i when the pool is visited group by group, the groups in
\* the order of their first question.
VisitedBefore(j, i) ==
    \/ GroupRank(j) < GroupRank(i)
    \/ GroupRank(j) = GroupRank(i) /\ j < i

\* The step of the primary loop appends a question.
Selects ==
    /\ SelectionStep
    /\ Len(selected_questions') = Len(selected_questions) + 1

\* C17 as stated: the question a step of the primary loop selects is a
\* candidate of the highest fitness score, and among the candidates of that
\* score it is the first in the insertion order of the pool.
C17_Original ==
    [][Selects =>
          \E i \in CandidateIndices :
              /\ all_questions[i] = selected_questions'[Len(selected_questions')]
              /\ \A j \in CandidateIndices :
                     /\ ~ScoreLess(ScoreAt(i), ScoreAt(j))
                     /\ j < i => ScoreLess(ScoreAt(j), ScoreAt(i))]_vars

\* C17 amended: the question a step of the primary loop selects is a
\* candidate of the highest fitness score, and among the candidates of that
\* score it is the first in the order (unit, marks, bloom_level) group by
\* group, groups by first insertion, insertion order inside a group.
C17_HighestScoreFirstVisited ==
    [][Selects =>
          \E i \in CandidateIndices :
              /\ all_questions[i] = selected_questions'[Len(selected_questions')]
              /\ \A j \in CandidateIndices :
                     /\ ~ScoreLess(ScoreAt(i), ScoreAt(j))
                     /\ VisitedBefore(j, i) => ScoreLess(ScoreAt(j), ScoreAt(i))]_vars

\* The third question of the pool selected before the second, which ties
\* with it but is of another group than the first.
C17_Witness ==
    /\ pc = "loop"
    /\ Len(all_questions) = 3
    /\ Len(selected_questions) = 2
    /\ selected_questions[1].id = all_questions[1].id
    /\ selected_questions[2].id = all_questions[3].id
    /\ Key(all_questions[1]) = Key(all_questions[3])
    /\ all_questions[2].marks = all_questions[3].marks
    /\ caller_units = <<>>
    /\ caller_blooms = <<>>

\* A map with the amount taken off the entry of the key, when it has one;
\* same keys, other entries as they were.
LessAt(map, key, amount) ==
    [k \in DOMAIN map |-> IF k = key THEN map[k] - amount ELSE map[k]]

\* The question the step appends.
Selected == selected_questions'[Len(selected_questions')]

\* C18 as stated: on each selection of the primary loop remaining_marks
\* decreases by the question's marks, and unit_distribution[unit] and
\* bloom_distribution[bloom_level] each decrease by the question's marks when
\* the key exists; other entries are unchanged and no key is added.
C18_Original ==
    [][Selects =>
          /\ remaining_marks' = remaining_marks - Selected.marks
          /\ unit_distribution' =
                 LessAt(unit_distribution, Selected.unit, Selected.marks)
          /\ bloom_distribution' =
                 LessAt(bloom_distribution, Selected.bloom_level,
                        Selected.marks)]_vars

\* C18 amended: on each selection of the primary loop remaining_marks
\* decreases by the question's marks, the caller's unit_distribution[unit]
\* decreases by them when the key exists, and so does the entry of the
\* level in bloom_targets, the local map of marks per level (kept here in
\* hundredths of a mark); other entries are unchanged, no key is added, and
\* the caller's bloom_distribution is not modified.
C18_DecrementsUnitsAndTargets ==
    [][Selects =>
          /\ remaining_marks' = remaining_marks - Selected.marks
          /\ unit_distribution' =
                 LessAt(unit_distribution, Selected.unit, Selected.marks)
          /\ bloom_targets' =
                 LessAt(bloom_targets, Selected.bloom_level,
                        100 * Selected.marks)
          /\ bloom_distribution' = bloom_distribution
          /\ bloom_distribution = caller_blooms]_vars

\* After one selection of a question whose unit and level are keys, with
\* another unit among the keys: the unit's entry and the level's target are
\* lower, the other unit's entry and the percentages are as passed.
C18_Witness ==
    /\ pc = "loop"
    /\ Len(selected_questions) = 1
    /\ DOMAIN caller_units = Units
    /\ caller_blooms # <<>>
    /\ selected_questions[1].unit = "Unit 1"
    /\ selected_questions[1].bloom_level \in DOMAIN bloom_targets
    /\ unit_distribution["Unit 1"] =
           caller_units["Unit 1"] - selected_questions[1].marks
    /\ unit_distribution["Unit 2"] = caller_units["Unit 2"]
    /\ bloom_targets[selected_questions[1].bloom_level] =
           caller_blooms[selected_questions[1].bloom_level] * total_marks
           - 100 * selected_questions[1].marks
    /\ bloom_distribution = caller_blooms

\* An iteration of the primary loop runs: find_best_candidate is called and
\* scores the candidates with the remaining marks of the state.
Iterates ==
    /\ pc = "loop"
    /\ attempts' = attempts + 1

\* C19: over a pool whose questions all have marks > 0, every iteration of
\* the primary loop, the only place calculate_fitness_score is evaluated,
\* runs with remaining_marks > 0, and every candidate scored has marks > 0:
\* none of the divisions of the score is by zero.
C19_ScoreOnlyWithPositiveRemaining ==
    [][((\A i \in 1..Len(all_questions) : all_questions[i].marks > 0)
        /\ Iterates) =>
          /\ remaining_marks > 0
          /\ \A i \in CandidateIndices :
                 /\ all_questions[i].marks > 0
                 /\ ScoreAt(i).den # 0]_vars

\* The loop stopped by the remaining marks alone: iterations have run, the
\* paper is short of num_questions, a question is left in the pool and the
\* remaining marks are 0.
C19_Witness ==
    /\ pc = "loop"
    /\ attempts = 2
    /\ remaining_marks = 0
    /\ Len(selected_questions) = 2
    /\ Len(selected_questions) < num_questions
    /\ Len(all_questions) = 3

\* The classified text, lowered, holds one of the substrings in a word.
Contains(subs) ==
    \E i \in 1..Len(question_text), sub \in subs :
        HasSubstring(Lower(question_text[i]), sub)

\* The classified text starts with one of the words.
FirstWordIn(firsts) ==
    /\ Len(question_text) >= 1
    /\ Lower(question_text[1]) \in firsts

\* The classified text starts with one of the words and a space after it.
FirstWordThenSpace(firsts) ==
    /\ Len(question_text) >= 2
    /\ Lower(question_text[1]) \in firsts

\* The level of the first applicable rule of the cascade, given whether the
\* text starts as rule 1, rule 2 and rule 3 ask.
Cascade(starts_what, starts_how, starts_why) ==
    IF starts_what THEN "Remember"
    ELSE IF starts_how
    THEN (IF Contains({"work", "implement"}) THEN "Apply" ELSE "Understand")
    ELSE IF starts_why
    THEN (IF TextLen(question_text) > 100 THEN "Analyze" ELSE "Understand")
    ELSE IF Contains({"explain", "describe"}) THEN "Understand"
    ELSE IF Contains({"compare", "contrast", "difference"}) THEN "Analyze"
    ELSE IF Contains({"design", "create", "develop"}) THEN "Create"
    ELSE "Understand"

\* No keyword of any level matches the classified text.
NoKeyword ==
    /\ pc = "classified"
    /\ \A l \in Range(LEVELS) : Counts[l] = 0

\* C20 as stated: when no keyword matches, the level is that of the first
\* applicable rule: (1) starts with what/who/when/where: Remember; (2) starts
\* with how: Apply if the text contains work or implement, else Understand;
\* (3) starts with why: Analyze if longer than 100 characters, else
\* Understand; (4) contains explain/describe: Understand; (5) contains
\* compare/contrast/difference: Analyze; (6) contains design/create/develop:
\* Create; (7) otherwise Understand.
C20_Original ==
    NoKeyword =>
        bloom_level = Cascade(FirstWordIn({"what", "who", "when", "where"}),
                              FirstWordIn({"how"}), FirstWordIn({"why"}))

\* C20 amended: the same cascade, where rules 1 to 3 apply only when the
\* opening word is followed by a whitespace character; a text that is the
\* opening word alone falls through to rules 4 to 7.
C20_HeuristicCascade ==
    NoKeyword =>
        bloom_level =
            Cascade(FirstWordThenSpace({"what", "who", "when", "where"}),
                    FirstWordThenSpace({"how"}), FirstWordThenSpace({"why"}))

\* A text of more than 100 characters that starts with why and holds
\* "design": rule 3 decides, Analyze, before rule 6.
C20_Witness ==
    /\ NoKeyword
    /\ bloom_level = "Analyze"
    /\ FirstWordThenSpace({"why"})
    /\ TextLen(question_text) > 100
    /\ Contains({"design"})
    /\ ~Contains({"compare", "contrast", "difference"})

\* generate_paper is running its primary loop or has just left it.
InPrimary == pc \in {"loop", "accept"}

\* What holds at every evaluation of the loop guard whatever total_marks is,
\* the bound on the iterations, and what one iteration does.
LoopBookkeeping ==
    /\ [](pc = "loop" =>
             /\ attempts = Len(selected_questions)
             /\ remaining_marks = total_marks - SumMarks(selected_questions))
    /\ [](InPrimary =>
             /\ attempts <= Min(num_questions, Len(all_questions)) + 1
             /\ attempts >= max_attempts =>
                    Len(selected_questions) >= max_attempts)
    /\ [][pc = "loop" =>
             \/ /\ pc' = "accept"
                /\ selected_questions' = selected_questions
             \/ /\ pc' = "loop"
                /\ attempts' = attempts + 1
                /\ Len(selected_questions') = Len(selected_questions) + 1
                /\ SubSeq(selected_questions', 1, Len(selected_questions)) =
                       selected_questions
                /\ Selected.id \notin Ids(selected_questions)
                /\ \E i \in 1..Len(all_questions) :
                       all_questions[i] = Selected]_vars

C23_NoneBelowThree ==
    (pc = "done" /\ num_questions < 3) =>
        /\ result = NoPaper
        /\ returned_by # "primary"
        /\ Len(selected_questions) <= num_questions
        /\ returned_by = "relaxed" => Len(selected) <= num_questions

\* num_questions = 2 on a pool of 3: the primary loop and the fallback each
\* selected 2 questions and None was returned.
C23_Witness ==
    /\ pc = "done"
    /\ num_questions = 2
    /\ Len(all_questions) = 3
    /\ Len(selected_questions) = 2
    /\ returned_by = "relaxed"
    /\ Len(selected) = 2
    /\ result = NoPaper

\* The marks of the questions of the unit in the list.
UnitMarks(qs, unit) == SumMarks(SelectSeq(qs, LAMBDA q : q.unit = unit))

\* C24: when the acceptance test rejects the primary selection, the
\* caller's unit_distribution is left, after generate_paper returns a
\* fallback paper or None, with each entry at its initial value minus the
\* marks of the primary-selected questions of that unit, whatever the
\* questions returned are.
C24_KeepsPrimaryDecrements ==
    (pc = "done" /\ returned_by = "relaxed") =>
        /\ DOMAIN unit_distribution = DOMAIN caller_units
        /\ \A u \in DOMAIN caller_units :
               unit_distribution[u] =
                   caller_units[u] - UnitMarks(selected_questions, u)

\* A fallback paper whose marks in Unit 1 differ from those of the
\* discarded primary selection, which are the ones taken off the entry.
C24_Witness ==
    /\ pc = "done"
    /\ returned_by = "relaxed"
    /\ result # NoPaper
    /\ "Unit 1" \in DOMAIN caller_units
    /\ UnitMarks(selected_questions, "Unit 1") > 0
    /\ UnitMarks(result, "Unit 1") # UnitMarks(selected_questions, "Unit 1")
    /\ unit_distribution["Unit 1"] =
           caller_units["Unit 1"] - UnitMarks(selected_questions, "Unit 1")

\* A replace_question step that reports success.
Replaces(question_id) ==
    /\ response' = "replaced"
    /\ replace_question(question_id)

\* C25: the current paper, generated over a pool with distinct ids and then
\* changed by replace_question and remove_question calls, has pairwise
\* distinct ids; a successful replace puts a pool question of the same unit,
\* bloom_level and marks, not in the paper before, at the position of the
\* replaced question, and leaves the length, the other questions and the
\* total marks of the paper as they were.
C25_ReviewKeepsPaperSound ==
    /\ [](current_paper # NoFile =>
             \A i, j \in 1..Len(current_paper) :
                 i # j => current_paper[i].id # current_paper[j].id)
    /\ [][\A question_id \in 0..MaxId :
             Replaces(question_id) =>
                 /\ Len(current_paper') = Len(current_paper)
                 /\ SumMarks(current_paper') = SumMarks(current_paper)
                 /\ \E i \in 1..Len(current_paper) :
                        /\ current_paper[i].id = question_id
                        /\ current_paper'[i].id \notin Ids(current_paper)
                        /\ \E k \in 1..Len(questions) :
                               questions[k] = current_paper'[i]
                        /\ current_paper'[i].unit = current_paper[i].unit
                        /\ current_paper'[i].bloom_level =
                               current_paper[i].bloom_level
                        /\ current_paper'[i].marks = current_paper[i].marks
                        /\ \A j \in 1..Len(current_paper) :
                               j # i => current_paper'[j] = current_paper[j]]_vars

\* A paper of two questions after a removal and a successful replacement:
\* the question in the second place came in from the pool.
C25_Witness ==
    /\ response = "replaced"
    /\ current_paper # NoFile
    /\ Len(current_paper) = 2
    /\ current_paper[1].id # current_paper[2].id
    /\ current_paper[2].id < current_paper[1].id
    /\ current_paper[1].marks = current_paper[2].marks

(***************************************************************************)
(* Properties of the question synthesizer                                  *)
(***************************************************************************)
\* The number of drafts of the unit in the list.
CountOf(qs, unit) == Cardinality({i \in 1..Len(qs) : qs[i].unit = unit})

UnitsIn(qs) == {qs[i].unit : i \in 1..Len(qs)}

\* The largest per-unit count of the list is more than twice the smallest.
Unbalanced(qs) ==
    \E u, v \in UnitsIn(qs) :
        /\ \A w \in UnitsIn(qs) : CountOf(qs, v) <= CountOf(qs, w)
        /\ CountOf(qs, u) > 2 * CountOf(qs, v)

\* The smallest per-unit count of a list that is not empty.
SmallestCount(qs) ==
    CHOOSE m \in {CountOf(qs, u) : u \in UnitsIn(qs)} :
        \A u \in UnitsIn(qs) : m <= CountOf(qs, u)

\* s can be obtained from t by deleting elements.
RECURSIVE IsSubList(_, _)
IsSubList(s, t) ==
    IF s = <<>> THEN TRUE
    ELSE IF t = <<>> THEN FALSE
    ELSE IF s[1] = t[1] THEN IsSubList(Tail(s), Tail(t))
    ELSE IsSubList(s, Tail(t))

\* The drafts of each unit stand together, the units in the order of their
\* first draft in qs.
GroupedAs(out, qs) ==
    \A i, j \in 1..Len(out) :
        i < j =>
            LET first(u) == CHOOSE k \in 1..Len(qs) :
                                /\ qs[k].unit = u
                                /\ \A h \in 1..(k - 1) : qs[h].unit # u
            IN  first(out[i].unit) <= first(out[j].unit)

\* The output holds, of each unit, the drafts the claim states: the first
\* max(8, min_count + 2) when the list is unbalanced, and otherwise the list
\* is returned as it is.
TruncatedPerUnit ==
    IF Unbalanced(draft_questions)
    THEN /\ \A u \in UnitsIn(draft_questions) :
                OfUnit(balanced, u) =
                    Take(OfUnit(draft_questions, u),
                         Max(8, SmallestCount(draft_questions) + 2))
         /\ UnitsIn(balanced) \subseteq UnitsIn(draft_questions)
    ELSE balanced = draft_questions

\* C21 as stated: an unbalanced list has each unit's drafts truncated to
\* their first max(8, min_count + 2), a balanced one is returned unchanged,
\* and in both cases the output is a sub-list of the input.
C21_Original ==
    pc = "balanced" =>
        /\ TruncatedPerUnit
        /\ IsSubList(balanced, draft_questions)

\* C21 amended: the same truncation per unit, each unit's drafts in their
\* original order; the output of an unbalanced list is grouped by unit, the
\* units in the order of their first draft, so it is a sub-list of the input
\* when the input is itself grouped by unit.
C21_TruncatesPerUnit ==
    pc = "balanced" =>
        /\ TruncatedPerUnit
        /\ \A u \in UnitsIn(draft_questions) :
               IsSubList(OfUnit(balanced, u), OfUnit(draft_questions, u))
        /\ Unbalanced(draft_questions) => GroupedAs(balanced, draft_questions)
        /\ GroupedAs(draft_questions, draft_questions) =>
               IsSubList(balanced, draft_questions)

\* Alternating units, the smaller with 7 drafts or more: the larger is cut
\* to min_count + 2 > 8 and the output is regrouped.
C21_Witness ==
    /\ pc = "balanced"
    /\ Unbalanced(draft_questions)
    /\ SmallestCount(draft_questions) >= 7
    /\ Len(balanced) < Len(draft_questions)
    /\ ~IsSubList(balanced, draft_questions)

\* The number of drafts of the unit with the marks.
MarksCount(qs, unit, m) ==
    Cardinality({i \in 1..Len(qs) : qs[i].unit = unit /\ qs[i].marks = m})

\* C26: for every unit and every number of extracted topics, zero included,
\* generate_questions_for_unit emits exactly 8 drafts whose marks are a
\* permutation of [2, 2, 5, 5, 5, 10, 10, 10]; so all the units of
\* generate_questions_from_text have the same number of questions and
\* balance_question_distribution returns the list as it is.
C26_EightPerUnit ==
    /\ \A u \in UnitsIn(draft_questions) :
           /\ CountOf(draft_questions, u) = 8
           /\ MarksCount(draft_questions, u, 2) = 2
           /\ MarksCount(draft_questions, u, 5) = 3
           /\ MarksCount(draft_questions, u, 10) = 3
    /\ Len(draft_questions) = 8 * Cardinality(UnitsIn(draft_questions))
    /\ pc = "synthesized" =>
           /\ ~Unbalanced(draft_questions)
           /\ balanced = draft_questions

\* Two units, one without extracted topics and one with more than 10: 16
\* drafts, returned as they are.
C26_Witness ==
    /\ pc = "synthesized"
    /\ Len(balanced) = 16
    /\ \E i \in 1..8 : draft_questions[i].question.topic \in Range(GenericTopics)
    /\ \E i \in 9..16 :
           draft_questions[i].question.topic = <<"concept", max_concepts>>

====
